---- MODULE Spec2Model ----
(***************************************************************************)
(* serde-mux (src/src/lib.rs): the fingerprinting value types and their    *)
(* hex conversions, the key-fingerprint binding and the protobuf binding.  *)
(*                                                                         *)
(* A byte buffer (Box<[u8]>) is a sequence of numbers 0..255.  A String is *)
(* the sequence of its UTF-8 bytes (ASCII code points here), which is what *)
(* the hex codec reads and what String's derived ordering compares.  The   *)
(* PhantomData tags have no runtime representation and are left out.       *)
(***************************************************************************)
EXTENDS Integers, Sequences, FiniteSets, TLC

(***************************************************************************)
(* Bounds of the checked instances.                                        *)
(***************************************************************************)
MaxBytes == 2
MaxStr == 4
MaxCalls == 3
MaxWire == 2

VARIABLES
  pc,        \* fingerprinting: the last operation applied
  bytesA,    \* a FingerprintableBytes value (Option)
  bytesB,    \* a second FingerprintableBytes value, for comparisons (Option)
  hexA,      \* the HexFingerprint made from bytesA or from a String (Option)
  hexB,      \* the HexFingerprint made from bytesB (Option)
  parsed,    \* the Result of from_hex_string on hexA's string (Option)
  rehex,     \* the HexFingerprint of the parsed bytes (Option)
  conv,      \* the Source type's Into<FingerprintableBytes<Self>> conversion
  fp_log,    \* the calls of KeyFingerprint::serialize so far
  ser,       \* the last Protobuf::serialize call (Option)
  de         \* the last Protobuf::deserialize call (Option)

vars == <<pc, bytesA, bytesB, hexA, hexB, parsed, rehex, conv, fp_log, ser, de>>

(***************************************************************************)
(* Input domains.                                                          *)
(***************************************************************************)
\* u8 values around the nibble boundaries 0x09/0x0a, 0x9f/0xa0.
ByteVals == {0, 9, 10, 159, 160, 255}

\* '0' '9' ':' 'A' 'F' 'a' 'f' 'g'
CharVals == {48, 57, 58, 65, 70, 97, 102, 103}

SeqsUpTo(S, n) == UNION {[1..k -> S] : k \in 0..n}

Bufs == SeqsUpTo(ByteVals, MaxBytes)

Strs == SeqsUpTo(CharVals, MaxStr)

(***************************************************************************)
(* Option and Result values.                                               *)
(***************************************************************************)
NoneSeq == [some |-> FALSE, val |-> <<>>]

SomeSeq(s) == [some |-> TRUE, val |-> s]

NoHexError == [kind |-> "none", c |-> 0, index |-> 0]

OddLength == [kind |-> "OddLength", c |-> 0, index |-> 0]

InvalidHexCharacter(c, index) == [kind |-> "InvalidHexCharacter", c |-> c, index |-> index]

HexOk(bytes) == [ok |-> TRUE, val |-> bytes, err |-> NoHexError]

HexErr(e) == [ok |-> FALSE, val |-> <<>>, err |-> e]

NoParse == [some |-> FALSE, res |-> HexErr(NoHexError)]

SomeParse(r) == [some |-> TRUE, res |-> r]

(***************************************************************************)
(* The hex codec, as the hex crate computes it.                            *)
(***************************************************************************)
\* "0123456789abcdef"
HEX_CHARS_LOWER == <<48, 49, 50, 51, 52, 53, 54, 55, 56, 57, 97, 98, 99, 100, 101, 102>>

\* "0123456789ABCDEF"
HEX_CHARS_UPPER == <<48, 49, 50, 51, 52, 53, 54, 55, 56, 57, 65, 66, 67, 68, 69, 70>>

\* One byte -> its two characters: table[byte >> 4], table[byte & 0xf].
byte2hex(byte, table) == <<table[(byte \div 16) + 1], table[(byte % 16) + 1]>>

RECURSIVE encode_with(_, _)
encode_with(bytes, table) ==
  IF bytes = <<>> THEN <<>>
  ELSE byte2hex(Head(bytes), table) \o encode_with(Tail(bytes), table)

\* hex::encode(&self.0)
hex_encode(bytes) == encode_with(bytes, HEX_CHARS_LOWER)

\* The value of one hex digit, or the error naming it (idx is 0-based).
val(c, idx) ==
  IF c >= 65 /\ c <= 70 THEN [ok |-> TRUE, v |-> c - 65 + 10, err |-> NoHexError]
  ELSE IF c >= 97 /\ c <= 102 THEN [ok |-> TRUE, v |-> c - 97 + 10, err |-> NoHexError]
  ELSE IF c >= 48 /\ c <= 57 THEN [ok |-> TRUE, v |-> c - 48, err |-> NoHexError]
  ELSE [ok |-> FALSE, v |-> 0, err |-> InvalidHexCharacter(c, idx)]

\* The pairs from the i-th on (i is 0-based): the first failing digit ends it.
RECURSIVE decode_pairs(_, _)
decode_pairs(hex, i) ==
  IF 2 * i >= Len(hex) THEN HexOk(<<>>)
  ELSE LET hi == val(hex[2 * i + 1], 2 * i)
           lo == val(hex[2 * i + 2], 2 * i + 1)
       IN IF ~hi.ok THEN HexErr(hi.err)
          ELSE IF ~lo.ok THEN HexErr(lo.err)
          ELSE LET rest == decode_pairs(hex, i + 1)
               IN IF rest.ok THEN HexOk(<<((hi.v * 16) + lo.v) % 256>> \o rest.val)
                  ELSE rest

\* hex::decode(hex_string)
hex_decode(hex) ==
  IF Len(hex) % 2 # 0 THEN HexErr(OddLength) ELSE decode_pairs(hex, 0)

(***************************************************************************)
(* fingerprinting                                                          *)
(***************************************************************************)
FingerprintableBytes_new(bytes) == bytes

\* impl From<String> for HexFingerprint
HexFingerprint_from(value) == value

\* impl AsRef<str> for HexFingerprint
HexFingerprint_as_ref(self) == self

\* A plausible slip: the upper-case table.
into_hex_string_Upper(self) == HexFingerprint_from(encode_with(self, HEX_CHARS_UPPER))

\* A plausible slip: the nibbles of each byte in the wrong order.
RECURSIVE encode_swapped(_)
encode_swapped(bytes) ==
  IF bytes = <<>> THEN <<>>
  ELSE <<HEX_CHARS_LOWER[(Head(bytes) % 16) + 1], HEX_CHARS_LOWER[(Head(bytes) \div 16) + 1]>>
         \o encode_swapped(Tail(bytes))

into_hex_string_Swapped(self) == HexFingerprint_from(encode_swapped(self))

into_hex_string(self) == HexFingerprint_from(hex_encode(self))

\* A plausible slip: an odd trailing character is dropped instead of refused.
from_hex_string_Lenient(hex_string) ==
  LET even == SubSeq(hex_string, 1, 2 * (Len(hex_string) \div 2))
      decoded == hex_decode(even)
  IN IF decoded.ok THEN HexOk(FingerprintableBytes_new(decoded.val)) ELSE HexErr(decoded.err)

\* A plausible slip: the last decoded byte is lost.
from_hex_string_Short(hex_string) ==
  LET decoded == hex_decode(hex_string)
  IN IF decoded.ok
     THEN HexOk(FingerprintableBytes_new(
                  IF decoded.val = <<>> THEN <<>>
                  ELSE SubSeq(decoded.val, 1, Len(decoded.val) - 1)))
     ELSE HexErr(decoded.err)

from_hex_string(hex_string) ==
  LET decoded == hex_decode(hex_string)
  IN IF decoded.ok THEN HexOk(FingerprintableBytes_new(decoded.val)) ELSE HexErr(decoded.err)

\* The derived Ord of a sequence field: "Less", "Equal" or "Greater".
RECURSIVE cmp(_, _)
cmp(a, b) ==
  IF a = <<>> /\ b = <<>> THEN "Equal"
  ELSE IF a = <<>> THEN "Less"
  ELSE IF b = <<>> THEN "Greater"
  ELSE IF Head(a) < Head(b) THEN "Less"
  ELSE IF Head(a) > Head(b) THEN "Greater"
  ELSE cmp(Tail(a), Tail(b))

\* #[derive(PartialEq, Eq, PartialOrd, Ord)] on FingerprintableBytes
FingerprintableBytes_cmp(a, b) == cmp(a, b)

\* #[derive(PartialEq, Eq, PartialOrd, Ord)] on HexFingerprint
HexFingerprint_cmp(a, b) == cmp(a, b)

(***************************************************************************)
(* The fingerprinting operations as steps of a caller: a caller makes its   *)
(* values once and then applies the conversions to them.                   *)
(***************************************************************************)
Source == {"k1", "k2"}

NoConv == [s \in Source |-> <<>>]

NoSer ==
  [some |-> FALSE, source |-> "", from |-> [f1 |-> "None", f2 |-> "None"],
   encoded |-> [f1 |-> "None", f2 |-> "None"], written |-> <<>>]

NoErr == [variant |-> "none", detail |-> ""]

NoDe ==
  [some |-> FALSE, data |-> <<>>,
   decoded |-> [ok |-> FALSE, val |-> [f1 |-> "None", f2 |-> "None"], err |-> ""],
   answer |-> [ok |-> FALSE, val |-> "", err |-> NoErr],
   result |-> [ok |-> FALSE, val |-> "", err |-> NoErr],
   calls |-> <<>>]

InitHex ==
  /\ pc = "start"
  /\ bytesA = NoneSeq
  /\ bytesB = NoneSeq
  /\ hexA = NoneSeq
  /\ hexB = NoneSeq
  /\ parsed = NoParse
  /\ rehex = NoneSeq
  /\ conv = NoConv
  /\ fp_log = <<>>
  /\ ser = NoSer
  /\ de = NoDe

\* FingerprintableBytes::new on two buffers.
New ==
  /\ pc = "start"
  /\ \E a \in Bufs, b \in Bufs :
       /\ pc' = "new"
       /\ bytesA' = SomeSeq(FingerprintableBytes_new(a))
       /\ bytesB' = SomeSeq(FingerprintableBytes_new(b))
  /\ UNCHANGED <<hexA, hexB, parsed, rehex, conv, fp_log, ser, de>>

\* into_hex_string on both (a clone of each buffer is kept for comparison).
IntoHexString ==
  /\ pc = "new"
  /\ pc' = "encoded"
  /\ hexA' = SomeSeq(into_hex_string(bytesA.val))
  /\ hexB' = SomeSeq(into_hex_string(bytesB.val))
  /\ UNCHANGED <<bytesA, bytesB, parsed, rehex, conv, fp_log, ser, de>>

\* HexFingerprint::from(String) on any string.
FromString ==
  /\ pc = "start"
  /\ \E s \in Strs :
       /\ pc' = "wrapped"
       /\ hexA' = SomeSeq(HexFingerprint_from(s))
  /\ UNCHANGED <<bytesA, bytesB, hexB, parsed, rehex, conv, fp_log, ser, de>>

\* from_hex_string on the fingerprint's string.
FromHexString ==
  /\ pc \in {"encoded", "wrapped"}
  /\ pc' = "parsed"
  /\ parsed' = SomeParse(from_hex_string(HexFingerprint_as_ref(hexA.val)))
  /\ UNCHANGED <<bytesA, bytesB, hexA, hexB, rehex, conv, fp_log, ser, de>>

\* into_hex_string on the bytes from_hex_string returned.
ReHex ==
  /\ pc = "parsed"
  /\ parsed.res.ok
  /\ pc' = "rehexed"
  /\ rehex' = SomeSeq(into_hex_string(parsed.res.val))
  /\ UNCHANGED <<bytesA, bytesB, hexA, hexB, parsed, conv, fp_log, ser, de>>

NextHex == New \/ IntoHexString \/ FromString \/ FromHexString \/ ReHex

SpecHex == InitHex /\ [][NextHex]_vars

(***************************************************************************)
(* formats::key_fingerprint                                                *)
(***************************************************************************)
KeyByteVals == {9, 160, 255}

KeyBufs == SeqsUpTo(KeyByteVals, MaxBytes)

\* Source: Into<FingerprintableBytes<Self>>, the Source type's own conversion.
Into_FingerprintableBytes(source) == FingerprintableBytes_new(conv[source])

KeyFingerprint_new(source) == source

\* A plausible slip: the number of earlier calls is mixed into the bytes.
KeyFingerprint_serialize_Salted(self) ==
  into_hex_string(Into_FingerprintableBytes(self) \o <<Len(fp_log)>>)

KeyFingerprint_serialize(self) ==
  LET proto_message == Into_FingerprintableBytes(self)
  IN into_hex_string(proto_message)

InitKey ==
  /\ pc = "start"
  /\ bytesA = NoneSeq
  /\ bytesB = NoneSeq
  /\ hexA = NoneSeq
  /\ hexB = NoneSeq
  /\ parsed = NoParse
  /\ rehex = NoneSeq
  /\ conv \in [Source -> KeyBufs]
  /\ fp_log = <<>>
  /\ ser = NoSer
  /\ de = NoDe

\* KeyFingerprint::new(v).serialize()
KeyFingerprintSerialize ==
  /\ Len(fp_log) < MaxCalls
  /\ \E v \in Source :
       fp_log' = Append(fp_log, [source |-> v,
                                 written |-> KeyFingerprint_serialize(KeyFingerprint_new(v))])
  /\ UNCHANGED <<pc, bytesA, bytesB, hexA, hexB, parsed, rehex, conv, ser, de>>

NextKey == KeyFingerprintSerialize

SpecKey == InitKey /\ [][NextKey]_vars

(***************************************************************************)
(* formats::protobuf                                                       *)
(*                                                                         *)
(* Proto, its conversions and the prost codec are the caller's: each call  *)
(* of one of them is an input, drawn from every answer its type allows.    *)
(* A Proto message has two optional fields; Default has neither.           *)
(***************************************************************************)
Fields == {"f1", "f2"}

ProtoMsgs == [f1 : {"None", "Some"}, f2 : {"None", "Some"}]

\* <Proto as Default>::default()
ProtoDefault == [f1 |-> "None", f2 |-> "None"]

WireByteVals == {1, 8}

WireBufs == SeqsUpTo(WireByteVals, MaxWire)

\* prost::DecodeError descriptions
DecodeErrors == {"buffer underflow", "invalid varint"}

DecodeResults ==
  {[ok |-> TRUE, val |-> p, err |-> ""] : p \in ProtoMsgs}
    \cup {[ok |-> FALSE, val |-> ProtoDefault, err |-> e] : e \in DecodeErrors}

\* enum ProtobufCodingFailure
OptionalFieldAbsent(field) == [variant |-> "OptionalFieldAbsent", detail |-> field]

FieldCompositionWasIncorrect == [variant |-> "FieldCompositionWasIncorrect", detail |-> ""]

SliceLength == [variant |-> "SliceLength", detail |-> ""]

MapStringCodingFailed == [variant |-> "MapStringCodingFailed", detail |-> ""]

Decode(e) == [variant |-> "Decode", detail |-> e]

\* What a Proto -> Source conversion (TryInto, Error = ProtobufCodingFailure) can return.
ConversionErrors ==
  {OptionalFieldAbsent(f) : f \in Fields}
    \cup {FieldCompositionWasIncorrect, SliceLength, MapStringCodingFailed}

SourceOk(v) == [ok |-> TRUE, val |-> v, err |-> NoErr]

SourceErr(e) == [ok |-> FALSE, val |-> "", err |-> e]

ConversionResults == {SourceOk(v) : v \in Source} \cup {SourceErr(e) : e \in ConversionErrors}

\* A plausible slip: the codec's error is replaced by a synthesized one.
E_from_Synthesized(e) == FieldCompositionWasIncorrect

\* Decode(#[from] prost::DecodeError): E::from for E = ProtobufCodingFailure
E_from(e) == Decode(e)

Protobuf_new(source) == source

\* A plausible slip: the default message is encoded, not the converted one.
Protobuf_serialize_Default(self, into, encode_to_vec) ==
  [encoded |-> ProtoDefault, written |-> encode_to_vec[ProtoDefault]]

\* serialize(self): the message it handed to the codec and the bytes it returns.
Protobuf_serialize(self, into, encode_to_vec) ==
  LET proto_message == into[self]
  IN [encoded |-> proto_message, written |-> encode_to_vec[proto_message]]

\* A plausible slip: a failed decode falls back to the default message.
Protobuf_deserialize_Fallback(data, decode, try_into) ==
  LET decoded == decode[data]
      proto_message == IF decoded.ok THEN decoded.val ELSE ProtoDefault
  IN [result |-> try_into[proto_message], calls |-> <<"decode", "try_into">>]

\* A plausible slip: a conversion error is answered with the default's conversion.
Protobuf_deserialize_Lossy(data, decode, try_into) ==
  LET decoded == decode[data]
  IN IF ~decoded.ok
     THEN [result |-> SourceErr(E_from(decoded.err)), calls |-> <<"decode">>]
     ELSE [result |-> IF try_into[decoded.val].ok THEN try_into[decoded.val]
                      ELSE SourceOk("k1"),
           calls |-> <<"decode", "try_into">>]

\* deserialize(data): its result and the calls it made, in order.
Protobuf_deserialize(data, decode, try_into) ==
  LET decoded == decode[data]
  IN IF ~decoded.ok
     THEN [result |-> SourceErr(E_from(decoded.err)), calls |-> <<"decode">>]
     ELSE [result |-> try_into[decoded.val], calls |-> <<"decode", "try_into">>]

InitProto ==
  /\ pc = "start"
  /\ bytesA = NoneSeq
  /\ bytesB = NoneSeq
  /\ hexA = NoneSeq
  /\ hexB = NoneSeq
  /\ parsed = NoParse
  /\ rehex = NoneSeq
  /\ conv = NoConv
  /\ fp_log = <<>>
  /\ ser = NoSer
  /\ de = NoDe

\* Protobuf::new(v).serialize(): From answers p, the codec writes w for it.
ProtobufSerialize ==
  /\ ~ser.some
  /\ ~de.some
  /\ \E v \in Source, p \in ProtoMsgs, w \in WireBufs :
       LET into == [x \in {v} |-> p]
           encode_to_vec == [x \in {p, ProtoDefault} |-> IF x = p THEN w ELSE <<>>]
           out == Protobuf_serialize(Protobuf_new(v), into, encode_to_vec)
       IN ser' = [some |-> TRUE, source |-> v, from |-> p,
                  encoded |-> out.encoded, written |-> out.written]
  /\ UNCHANGED <<pc, bytesA, bytesB, hexA, hexB, parsed, rehex, conv, fp_log, de>>

\* Protobuf::deserialize(data) on any bytes (those just written among them):
\* the codec answers d for them, the conversion would answer c.
ProtobufDeserialize ==
  /\ ~de.some
  /\ \E data \in WireBufs, d \in DecodeResults, c \in ConversionResults :
       LET decode == [x \in {data} |-> d]
           try_into == [x \in {d.val, ProtoDefault} |-> c]
           out == Protobuf_deserialize(data, decode, try_into)
       IN de' = [some |-> TRUE, data |-> data, decoded |-> d, answer |-> c,
                 result |-> out.result, calls |-> out.calls]
  /\ UNCHANGED <<pc, bytesA, bytesB, hexA, hexB, parsed, rehex, conv, fp_log, ser>>

NextProto == ProtobufSerialize \/ ProtobufDeserialize

SpecProto == InitProto /\ [][NextProto]_vars

(***************************************************************************)
(* Vocabulary of the properties.                                           *)
(***************************************************************************)
IsHexDigit(c) == c \in (48..57) \cup (65..70) \cup (97..102)

IsLowerHexDigit(c) == c \in (48..57) \cup (97..102)

\* The character 0-9a-f of a nibble.
NibbleChar(n) == IF n < 10 THEN 48 + n ELSE 97 + (n - 10)

BadPositions(s) == {i \in 1..Len(s) : ~IsHexDigit(s[i])}

FirstBad(s) == CHOOSE i \in BadPositions(s) : \A j \in BadPositions(s) : i <= j

\* a < b in lexicographic order: a proper prefix, or smaller at the first difference.
LexLess(a, b) ==
  \E k \in 0..Len(a) :
    /\ k <= Len(b)
    /\ SubSeq(a, 1, k) = SubSeq(b, 1, k)
    /\ \/ k = Len(a) /\ k < Len(b)
       \/ k < Len(a) /\ k < Len(b) /\ a[k + 1] < b[k + 1]

IsPrefix(a, b) == Len(a) <= Len(b) /\ SubSeq(b, 1, Len(a)) = a

(***************************************************************************)
(* C1. Hex round-trip: for every byte buffer B, the empty one included,    *)
(* from_hex_string on the string of new(B).into_hex_string() returns Ok    *)
(* with a value equal to new(B).                                           *)
(***************************************************************************)
C1_HexRoundTrip ==
  (bytesA.some /\ parsed.some) =>
    /\ parsed.res.ok
    /\ parsed.res.val = FingerprintableBytes_new(bytesA.val)

C1_Witness ==
  /\ bytesA.some
  /\ parsed.some
  /\ parsed.res.ok
  /\ bytesA.val = <<10, 159>>

(***************************************************************************)
(* C5. Hex decode failure: from_hex_string on a string of odd length, or   *)
(* with a character that is no hex digit, returns Err with the codec's     *)
(* error (OddLength for an odd length, else InvalidHexCharacter naming the *)
(* first bad character and its 0-based index), never Ok with some bytes.   *)
(***************************************************************************)
C5_HexDecodeFailure ==
  (parsed.some /\ (Len(hexA.val) % 2 = 1 \/ BadPositions(hexA.val) # {})) =>
    /\ ~parsed.res.ok
    /\ parsed.res.val = <<>>
    /\ parsed.res.err =
         IF Len(hexA.val) % 2 = 1 THEN OddLength
         ELSE InvalidHexCharacter(hexA.val[FirstBad(hexA.val)], FirstBad(hexA.val) - 1)

C5_Witness ==
  /\ parsed.some
  /\ hexA.val = <<97, 102, 103, 58>>
  /\ parsed.res = HexErr(InvalidHexCharacter(103, 2))

(***************************************************************************)
(* C6, as claimed: every HexFingerprint, however made, whose string        *)
(* from_hex_string accepts comes back unchanged from                       *)
(* from_hex_string(h).into_hex_string().                                   *)
(***************************************************************************)
C6_AnyAcceptedStringRoundTrips ==
  rehex.some => rehex.val = hexA.val

(***************************************************************************)
(* C6, amended: every HexFingerprint whose string from_hex_string accepts  *)
(* and which holds no upper-case digit A-F (every output of                *)
(* into_hex_string is one) comes back unchanged from                       *)
(* from_hex_string(h).into_hex_string().                                   *)
(***************************************************************************)
C6_LowerCaseRoundTrips ==
  (rehex.some /\ \A i \in 1..Len(hexA.val) : IsLowerHexDigit(hexA.val[i])) =>
    rehex.val = hexA.val

C6_Witness ==
  /\ rehex.some
  /\ ~bytesA.some
  /\ hexA.val = <<57, 102, 97, 48>>
  /\ rehex.val = hexA.val

(***************************************************************************)
(* C10. Equality and ordering of FingerprintableBytes are byte-wise        *)
(* equality and lexicographic byte order, and into_hex_string preserves    *)
(* both: A == B iff the HexFingerprints are equal, A < B iff               *)
(* HexFingerprint(A) < HexFingerprint(B).                                  *)
(***************************************************************************)
C10_OrderPreserved ==
  (bytesA.some /\ bytesB.some /\ hexA.some /\ hexB.some) =>
    LET byteOrd == FingerprintableBytes_cmp(bytesA.val, bytesB.val)
        hexOrd == HexFingerprint_cmp(hexA.val, hexB.val)
    IN /\ (byteOrd = "Equal") <=> (bytesA.val = bytesB.val)
       /\ (byteOrd = "Less") <=> LexLess(bytesA.val, bytesB.val)
       /\ (hexOrd = "Equal") <=> (hexA.val = hexB.val)
       /\ (hexOrd = "Less") <=> LexLess(hexA.val, hexB.val)
       /\ (bytesA.val = bytesB.val) <=> (hexA.val = hexB.val)
       /\ byteOrd = hexOrd

C10_Witness ==
  /\ hexA.some
  /\ hexB.some
  /\ bytesA.val = <<9, 160>>
  /\ bytesB.val = <<10>>
  /\ FingerprintableBytes_cmp(bytesA.val, bytesB.val) = "Less"
  /\ HexFingerprint_cmp(hexA.val, hexB.val) = "Less"

C8_SerializeIsLowerHex ==
  \A k \in DOMAIN fp_log :
    LET bytes == conv[fp_log[k].source]
        written == fp_log[k].written
    IN /\ Len(written) = 2 * Len(bytes)
       /\ \A i \in 1..Len(written) : IsLowerHexDigit(written[i])
       /\ \A i \in 1..Len(bytes) :
            /\ written[2 * i - 1] = NibbleChar(bytes[i] \div 16)
            /\ written[2 * i] = NibbleChar(bytes[i] % 16)

C8_Witness ==
  /\ Len(fp_log) >= 1
  /\ conv[fp_log[1].source] = <<160, 9>>
  /\ fp_log[1].written = <<97, 48, 48, 57>>

(***************************************************************************)
(* C2. Protobuf round-trip: when the codec decodes the written bytes to    *)
(* the message it encoded and the conversion takes From(V) back to Ok(V),  *)
(* deserialize of the bytes serialize wrote for V returns Ok(V).           *)
(***************************************************************************)
C2_ProtobufRoundTrip ==
  ( /\ ser.some
    /\ de.some
    /\ de.data = ser.written
    /\ de.decoded = [ok |-> TRUE, val |-> ser.encoded, err |-> ""]
    /\ (de.decoded.val = ser.from => de.answer = SourceOk(ser.source)) ) =>
    de.result = SourceOk(ser.source)

C2_Witness ==
  /\ ser.some
  /\ de.some
  /\ ser.from = [f1 |-> "Some", f2 |-> "None"]
  /\ ser.written = <<8, 1>>
  /\ de.data = ser.written
  /\ de.decoded = [ok |-> TRUE, val |-> ser.from, err |-> ""]
  /\ de.answer = SourceOk(ser.source)
  /\ de.result = SourceOk(ser.source)

C9_DecodeThenConvert ==
  de.some =>
    IF de.decoded.ok
    THEN /\ de.calls = <<"decode", "try_into">>
         /\ de.result = de.answer
    ELSE /\ de.calls = <<"decode">>
         /\ de.result = SourceErr(Decode(de.decoded.err))

C9_Witness ==
  /\ de.some
  /\ de.decoded.ok
  /\ de.calls = <<"decode", "try_into">>
  /\ de.answer = SourceErr(FieldCompositionWasIncorrect)
  /\ de.result = de.answer

====
